---- MODULE Spec2Model ----
(***************************************************************************)
(* Model of the agent control loop of deep-search                          *)
(* (src/app/api/chat/route.tsx): SystemContext, actionSchema,               *)
(* getNextAction, runAgentLoop and answerQuestion.  The language model and *)
(* the Exa search/crawl provider are external: what they return is chosen  *)
(* nondeterministically from small sets, and each of their calls may fail. *)
(***************************************************************************)
EXTENDS Integers, Sequences, FiniteSets, TLC

VARIABLES
    pc,             \* position of runAgentLoop (its await points and tests)
    messages,       \* SystemContext.messages
    step,           \* SystemContext.step
    searchHistory,  \* SystemContext.searchHistory
    crawlHistory,   \* SystemContext.crawlHistory
    nextAction,     \* the Action of the current iteration
    answerChosen,   \* getNextAction has returned an 'answer' action
    selectCalls,    \* number of getNextAction calls made
    providerCalls,  \* number of exa.search / exa.getContents calls issued
    providerDone,   \* number of exa calls that have returned
    iterCalls,      \* the exa calls issued in the current iteration
    answerCalls,    \* the answerQuestion calls made, in order
    failure,        \* what the promise of runAgentLoop rejected with
    pending,        \* number of awaited calls of the run not yet settled
    addLog,         \* the add calls made on the SystemContext, in order
    rendered,       \* what the last get...History call returned
    heap,           \* the SystemContext objects created by concurrent runs
    runs,           \* the concurrent runs of runAgentLoop
    post            \* one request served by the POST handler

\* the state of one run of runAgentLoop and of its SystemContext
loopVars == <<pc, messages, step, searchHistory, crawlHistory, nextAction,
              answerChosen, selectCalls, providerCalls, providerDone,
              iterCalls, answerCalls, failure, pending>>

\* the record of the calls made directly on a SystemContext
accVars == <<addLog, rendered>>

\* what a step of runAgentLoop leaves alone
\* runs of runAgentLoop that interleave at their awaits
runVars == <<heap, runs>>

\* the POST handler of the chat route and the messages table
postVars == <<post>>

notLoopVars == <<accVars, runVars, postVars>>

vars == <<loopVars, notLoopVars>>

----------------------------------------------------------------------------
(* Bounds of the model *)

\* longest batch of results one provider call returns
MaxBatch == 2
\* longest history a run builds when two runs interleave
MaxRunHistory == 1
\* most add calls made directly on one SystemContext
MaxAddCalls == 3
\* longest search or crawl history the providers are allowed to build
MaxHistory == 2
\* the call counters saturate here (above the step ceiling)
CountCap == 12

SeqsUpTo(S, n) == UNION {[1..k -> S] : k \in 0..n}

Bump(n) == IF n < CountCap THEN n + 1 ELSE n

----------------------------------------------------------------------------
(* JSON values of a model response *)

JNull == [kind |-> "null", str |-> "", items |-> <<>>]
JStr(s) == [kind |-> "string", str |-> s, items |-> <<>>]
JNum == [kind |-> "number", str |-> "", items |-> <<>>]
JArr(xs) == [kind |-> "array", str |-> "", items |-> xs]

UrlA == "https://a.example"
UrlB == "https://b.example"

\* responses of the model that have the shape of actionSchema
ConformingResponses ==
    [reasoning : {JStr("because")},
     type : {JStr("search"), JStr("crawl"), JStr("answer")},
     query : {JNull, JStr(""), JStr("bikes")},
     urls : {JNull, JArr(<<>>), JArr(<<UrlA, UrlB>>), JArr(<<UrlB, UrlA>>)}]

\* responses with a missing or ill-typed field, or a tag outside the enum
OtherResponses ==
    {[reasoning |-> JNull, type |-> JStr("answer"), query |-> JNull, urls |-> JNull],
     [reasoning |-> JStr("because"), type |-> JStr("browse"), query |-> JNull, urls |-> JNull],
     [reasoning |-> JStr("because"), type |-> JNull, query |-> JNull, urls |-> JNull],
     [reasoning |-> JStr("because"), type |-> JStr("search"), query |-> JNum, urls |-> JNull],
     [reasoning |-> JStr("because"), type |-> JStr("crawl"), query |-> JNull, urls |-> JNum]}

\* what the model may answer to the structured-output request
ModelResponses == ConformingResponses \cup OtherResponses

\* the value of nextAction before the first selection
NoAction == [reasoning |-> JNull, type |-> JNull, query |-> JNull, urls |-> JNull]

\* SearchResult values; the title of the second is null
SearchA == [id |-> "a", title |-> JStr("A"), url |-> UrlA]
SearchB == [id |-> "b", title |-> JNull, url |-> UrlB]
Results == {SearchA, SearchB}
Batches == SeqsUpTo(Results, MaxBatch)

\* CrawlResult values: a SearchResult and the text of the page
CrawlA == [id |-> "a", title |-> JStr("A"), url |-> UrlA, text |-> "alpha"]
CrawlB == [id |-> "b", title |-> JNull, url |-> UrlB, text |-> "beta"]
CrawlResults == {CrawlA, CrawlB}
CrawlBatches == SeqsUpTo(CrawlResults, MaxBatch)

UserHello == [role |-> "user", parts |-> <<[type |-> "text", text |-> "hello"]>>]
AssistantHi == [role |-> "assistant",
                parts |-> <<[type |-> "reasoning", text |-> "think"],
                            [type |-> "tool-searchWeb", state |-> "output-available"],
                            [type |-> "text", text |-> "hi"]>>]
\* the value of rendered before the first get...History call
NotRendered == [of |-> "none", text |-> ""]

MessageLists == {<<UserHello>>, <<UserHello, AssistantHi, UserHello>>}

----------------------------------------------------------------------------
(* SystemContext *)

StepCeiling == 10

\* the comparison lets the counter pass the ceiling once
ShouldStopLate(n) == n > StepCeiling

ShouldStop(n) == n >= StepCeiling

\* the counter is left as it is
IncrementStepLost(n) == n

IncrementStep(n) == n + 1

\* results already in the history are dropped
AddSearchResultsDedup(history, results) ==
    history \o SelectSeq(results,
                         LAMBDA r : \A i \in 1..Len(history) : history[i] # r)

AddSearchResults(history, results) == history \o results

AddCrawls(history, crawls) == history \o crawls

\* Array.prototype.join
RECURSIVE Join(_, _)
Join(strs, sep) ==
    IF strs = <<>> THEN ""
    ELSE IF Len(strs) = 1 THEN Head(strs)
    ELSE Head(strs) \o sep \o Join(Tail(strs), sep)

\* a null title in a template literal reads "null"
TitleText(t) == IF t.kind = "null" THEN "null" ELSE t.str

GetSearchHistory(history) ==
    Join([i \in 1..Len(history) |->
             "- " \o TitleText(history[i].title) \o ": " \o history[i].url],
         "\n")

GetCrawlHistory(history) ==
    Join([i \in 1..Len(history) |->
             "## " \o TitleText(history[i].title) \o "\n" \o history[i].url
                   \o "\n\n" \o history[i].text],
         "\n\n---\n\n")

\* (p as any).text ?? ""
PartText(p) == IF "text" \in DOMAIN p THEN p.text ELSE ""

GetMessageHistory(msgs) ==
    Join([i \in 1..Len(msgs) |->
             msgs[i].role \o ": "
                 \o Join([j \in 1..Len(msgs[i].parts) |-> PartText(msgs[i].parts[j])], "")],
         "\n")

----------------------------------------------------------------------------
(* actionSchema *)

ActionTypes == {"search", "crawl", "answer"}

IsString(j) == j.kind = "string"

IsNullable(j, ok) == j.kind = "null" \/ ok

SchemaAccepts(raw) ==
    /\ IsString(raw.reasoning)
    /\ IsString(raw.type) /\ raw.type.str \in ActionTypes
    /\ IsNullable(raw.query, IsString(raw.query))
    /\ IsNullable(raw.urls, raw.urls.kind = "array")

----------------------------------------------------------------------------
(* runAgentLoop *)

IsSearch(a) == a.type = JStr("search")

\* the crawl block runs for every action that is not an answer
IsCrawlNotAnswer(a) == a.type # JStr("answer")

IsCrawl(a) == a.type = JStr("crawl")

\* the answer branch is never taken
IsAnswerNever(a) == FALSE

IsAnswer(a) == a.type = JStr("answer")

\* exa.search(nextAction.query!, ...): one call, with the query as it is
SearchRequests(a) == <<[api |-> "search", arg |-> a.query]>>

\* one exa.getContents call per URL of the list
CrawlRequestsPerUrl(a) ==
    [i \in 1..Len(a.urls.items) |->
        [api |-> "getContents", arg |-> JArr(<<a.urls.items[i]>>)]]

\* exa.getContents(nextAction.urls!, ...): one call, with the whole list
CrawlRequests(a) == <<[api |-> "getContents", arg |-> a.urls]>>

\* the default of the second parameter of answerQuestion is true
DefaultExhaustedSet == TRUE

\* answerQuestion(context) uses the default of its second parameter
DefaultExhausted == FALSE

\* the call after the loop does not pass the flag
ExhaustedArgDropped == FALSE

\* answerQuestion(context, true) after the loop
ExhaustedArg == TRUE

AnswerQuestion(exhausted) == [exhausted |-> exhausted]

\* a rejected provider call is caught and the iteration goes on
OnRejectCaught(at) ==
    IF at = "awaitSearch" THEN "ifCrawl"
    ELSE IF at = "awaitCrawl" THEN "ifAnswer"
    ELSE "threw"

\* a response that fails to decode is dropped and the loop asks again
OnRejectRetry(at) == IF at = "awaitAction" THEN "while" ELSE "threw"

\* the two calls of runAgentLoop that interleave
Runs == {"first", "second"}

\* a call of runAgentLoop that has not started; own... and selects record
\* what the run itself was given, appended and asked
IdleRun == [pc |-> "idle", context |-> 0, answer |-> <<>>,
            msgs |-> <<>>, ownSearch |-> <<>>, ownCrawl |-> <<>>,
            done |-> 0, selects |-> 0]

\* the messages each of the two calls is given
RunMessages(r) ==
    IF r = "first" THEN <<UserHello>> ELSE <<UserHello, AssistantHi, UserHello>>

\* what the model answers to the runs that interleave
RunResponses ==
    {[reasoning |-> JStr("because"), type |-> JStr("search"), query |-> JStr("bikes"), urls |-> JNull],
     [reasoning |-> JStr("because"), type |-> JStr("crawl"), query |-> JNull, urls |-> JArr(<<UrlA, UrlB>>)],
     [reasoning |-> JStr("because"), type |-> JStr("crawl"), query |-> JNull, urls |-> JNull],
     [reasoning |-> JStr("because"), type |-> JStr("answer"), query |-> JNull, urls |-> JNull],
     [reasoning |-> JStr("because"), type |-> JStr("browse"), query |-> JNull, urls |-> JNull]}

\* one context object serves every run
AllocContextShared(h) == 1

\* new SystemContext(messages) is an object no other run holds
AllocContext(h) == Len(h) + 1

\* the fields of a SystemContext after its constructor
NewContext(msgs) ==
    [messages |-> msgs, step |-> 0, searchHistory |-> <<>>, crawlHistory |-> <<>>]

\* stopWhen: stepCountIs(15) of the streamText call of POST
PostStepLimit == 15

USER_ID == "usr_booker"

\* the bodies a request may carry: { messages }
PostBodies == {<<>>, <<UserHello>>, <<UserHello, AssistantHi, UserHello>>}

\* the handler before a request arrives; rows is the messages table,
\* inserts the db.insert calls made, modelCalls the streamText calls started
NoRequest == [pc |-> "idle", messages |-> <<>>, rows |-> <<>>, inserts |-> <<>>,
              modelCalls |-> 0, steps |-> 0, searches |-> 0, crawls |-> 0,
              stream |-> "none", finished |-> FALSE, failure |-> "none"]

\* the row written for the latest user message
UserRow(msg) == [userId |-> USER_ID, role |-> "user", parts |-> msg.parts]

\* the row written for the response message
AssistantRow == [userId |-> USER_ID, role |-> "assistant",
                 parts |-> <<[type |-> "text", text |-> "answer"]>>]

\* a failed insert of the user message is ignored
PostOnRejectIgnored(at) == IF at = "insertUser" THEN "execute" ELSE "rejected"

\* POST awaits the insert outside any try: a rejected insert rejects POST
PostOnReject(at) == "rejected"

\* no await of the loop is inside a try: a rejected await rejects the run
OnReject(at) == "threw"

Init ==
    /\ pc = "while"
    /\ messages \in MessageLists
    /\ step = 0
    /\ searchHistory = <<>>
    /\ crawlHistory = <<>>
    /\ nextAction = NoAction
    /\ answerChosen = FALSE
    /\ selectCalls = 0
    /\ providerCalls = 0
    /\ providerDone = 0
    /\ iterCalls = <<>>
    /\ answerCalls = <<>>
    /\ failure = "none"
    /\ pending = 0
    /\ addLog = <<>>
    /\ rendered = NotRendered
    /\ heap = <<>>
    /\ runs = [r \in Runs |-> IdleRun]
    /\ post = NoRequest

\* while (!context.shouldStop()) { ... await getNextAction(context)
EnterIteration ==
    /\ pc = "while"
    /\ ~ShouldStop(step)
    /\ pc' = "awaitAction"
    /\ selectCalls' = Bump(selectCalls)
    /\ iterCalls' = <<>>
    /\ UNCHANGED <<messages, step, searchHistory, crawlHistory, nextAction,
                   answerChosen, providerCalls, providerDone, answerCalls,
                   failure>>
    /\ pending' = pending + 1
    /\ UNCHANGED notLoopVars

\* the loop condition is false: return answerQuestion(context, true)
ExitExhausted ==
    /\ pc = "while"
    /\ ShouldStop(step)
    /\ pc' = "returned"
    /\ answerCalls' = Append(answerCalls, AnswerQuestion(ExhaustedArg))
    /\ UNCHANGED <<messages, step, searchHistory, crawlHistory, nextAction,
                   answerChosen, selectCalls, providerCalls, providerDone,
                   iterCalls, failure>>
    /\ pending' = pending
    /\ UNCHANGED notLoopVars

\* generateText resolves; its output is decoded against actionSchema
ActionSelected ==
    /\ pc = "awaitAction"
    /\ \E raw \in ModelResponses :
          IF SchemaAccepts(raw)
          THEN /\ nextAction' = raw
               /\ answerChosen' = (answerChosen \/ raw.type = JStr("answer"))
               /\ pc' = "ifSearch"
               /\ failure' = failure
          ELSE /\ pc' = OnReject("awaitAction")
               /\ failure' = "decode"
               /\ UNCHANGED <<nextAction, answerChosen>>
    /\ UNCHANGED <<messages, step, searchHistory, crawlHistory, selectCalls,
                   providerCalls, providerDone, iterCalls, answerCalls>>
    /\ pending' = pending - 1
    /\ UNCHANGED notLoopVars

\* generateText rejects (model provider error)
SelectorFails ==
    /\ pc = "awaitAction"
    /\ pc' = "threw"
    /\ failure' = "selector"
    /\ UNCHANGED <<messages, step, searchHistory, crawlHistory, nextAction,
                   answerChosen, selectCalls, providerCalls, providerDone,
                   iterCalls, answerCalls>>
    /\ pending' = pending - 1
    /\ UNCHANGED notLoopVars

\* if (nextAction.type === "search") { ... await exa.search(...)
IfSearch ==
    /\ pc = "ifSearch"
    /\ IF IsSearch(nextAction)
       THEN /\ pc' = "awaitSearch"
            /\ iterCalls' = iterCalls \o SearchRequests(nextAction)
            /\ providerCalls' = Bump(providerCalls)
            /\ pending' = pending + Len(SearchRequests(nextAction))
       ELSE /\ pc' = "ifCrawl"
            /\ UNCHANGED <<iterCalls, providerCalls, pending>>
    /\ UNCHANGED <<messages, step, searchHistory, crawlHistory, nextAction,
                   answerChosen, selectCalls, providerDone, answerCalls,
                   failure>>
    /\ UNCHANGED notLoopVars

\* exa.search resolves: context.addSearchResults(result.results)
SearchReturns ==
    /\ pc = "awaitSearch"
    /\ \E results \in Batches :
          /\ Len(searchHistory) + Len(results) <= MaxHistory
          /\ searchHistory' = AddSearchResults(searchHistory, results)
    /\ providerDone' = Bump(providerDone)
    /\ pc' = "ifCrawl"
    /\ UNCHANGED <<messages, step, crawlHistory, nextAction, answerChosen,
                   selectCalls, providerCalls, iterCalls, answerCalls,
                   failure>>
    /\ pending' = pending - 1
    /\ UNCHANGED notLoopVars

\* exa.search rejects
SearchFails ==
    /\ pc = "awaitSearch"
    /\ pc' = OnReject("awaitSearch")
    /\ failure' = "search"
    /\ UNCHANGED <<messages, step, searchHistory, crawlHistory, nextAction,
                   answerChosen, selectCalls, providerCalls, providerDone,
                   iterCalls, answerCalls>>
    /\ pending' = pending - 1
    /\ UNCHANGED notLoopVars

\* if (nextAction.type === "crawl") { nextAction.urls!.length ...
\*   await exa.getContents(...)
IfCrawl ==
    /\ pc = "ifCrawl"
    /\ IF IsCrawl(nextAction)
       THEN IF nextAction.urls.kind = "null"
            THEN /\ pc' = "threw"
                 /\ failure' = "typeError"
                 /\ UNCHANGED <<iterCalls, providerCalls, pending>>
            ELSE /\ pc' = "awaitCrawl"
                 /\ iterCalls' = iterCalls \o CrawlRequests(nextAction)
                 /\ providerCalls' = Bump(providerCalls)
                 /\ pending' = pending + Len(CrawlRequests(nextAction))
                 /\ failure' = failure
       ELSE /\ pc' = "ifAnswer"
            /\ UNCHANGED <<iterCalls, providerCalls, failure, pending>>
    /\ UNCHANGED <<messages, step, searchHistory, crawlHistory, nextAction,
                   answerChosen, selectCalls, providerDone, answerCalls>>
    /\ UNCHANGED notLoopVars

\* exa.getContents resolves: context.addCrawls(result.results)
CrawlReturns ==
    /\ pc = "awaitCrawl"
    /\ \E crawls \in CrawlBatches :
          /\ Len(crawlHistory) + Len(crawls) <= MaxHistory
          /\ crawlHistory' = AddCrawls(crawlHistory, crawls)
    /\ providerDone' = Bump(providerDone)
    /\ pc' = "ifAnswer"
    /\ UNCHANGED <<messages, step, searchHistory, nextAction, answerChosen,
                   selectCalls, providerCalls, iterCalls, answerCalls,
                   failure>>
    /\ pending' = pending - 1
    /\ UNCHANGED notLoopVars

\* exa.getContents rejects
CrawlFails ==
    /\ pc = "awaitCrawl"
    /\ pc' = OnReject("awaitCrawl")
    /\ failure' = "crawl"
    /\ UNCHANGED <<messages, step, searchHistory, crawlHistory, nextAction,
                   answerChosen, selectCalls, providerCalls, providerDone,
                   iterCalls, answerCalls>>
    /\ pending' = pending - 1
    /\ UNCHANGED notLoopVars

\* if (nextAction.type === "answer") return answerQuestion(context);
\* context.incrementStep();
IfAnswer ==
    /\ pc = "ifAnswer"
    /\ IF IsAnswer(nextAction)
       THEN /\ pc' = "returned"
            /\ answerCalls' = Append(answerCalls, AnswerQuestion(DefaultExhausted))
            /\ step' = step
       ELSE /\ pc' = "while"
            /\ step' = IncrementStep(step)
            /\ answerCalls' = answerCalls
    /\ UNCHANGED <<messages, searchHistory, crawlHistory, nextAction,
                   answerChosen, selectCalls, providerCalls, providerDone,
                   iterCalls, failure>>
    /\ pending' = pending
    /\ UNCHANGED notLoopVars

Next ==
    \/ EnterIteration
    \/ ExitExhausted
    \/ ActionSelected
    \/ SelectorFails
    \/ IfSearch
    \/ SearchReturns
    \/ SearchFails
    \/ IfCrawl
    \/ CrawlReturns
    \/ CrawlFails
    \/ IfAnswer

Spec == Init /\ [][Next]_vars

----------------------------------------------------------------------------
(* SystemContext on its own: its methods called in any order *)

\* what a direct call on the SystemContext leaves alone
loopCtl == <<pc, nextAction, answerChosen, selectCalls, providerCalls,
             providerDone, iterCalls, answerCalls, failure, pending, runVars,
             postVars>>

\* context.addSearchResults(results)
CallAddSearchResults ==
    /\ Len(addLog) < MaxAddCalls
    /\ \E results \in Batches :
          /\ searchHistory' = AddSearchResults(searchHistory, results)
          /\ addLog' = Append(addLog, [op |-> "addSearchResults", batch |-> results])
    /\ UNCHANGED <<messages, step, crawlHistory, rendered, loopCtl>>

\* context.addCrawls(crawls)
CallAddCrawls ==
    /\ Len(addLog) < MaxAddCalls
    /\ \E crawls \in CrawlBatches :
          /\ crawlHistory' = AddCrawls(crawlHistory, crawls)
          /\ addLog' = Append(addLog, [op |-> "addCrawls", batch |-> crawls])
    /\ UNCHANGED <<messages, step, searchHistory, rendered, loopCtl>>

\* context.getSearchHistory()
CallGetSearchHistory ==
    /\ rendered' = [of |-> "search", text |-> GetSearchHistory(searchHistory)]
    /\ UNCHANGED <<messages, step, searchHistory, crawlHistory, addLog, loopCtl>>

\* context.getCrawlHistory()
CallGetCrawlHistory ==
    /\ rendered' = [of |-> "crawl", text |-> GetCrawlHistory(crawlHistory)]
    /\ UNCHANGED <<messages, step, searchHistory, crawlHistory, addLog, loopCtl>>

\* context.getMessageHistory()
CallGetMessageHistory ==
    /\ rendered' = [of |-> "messages", text |-> GetMessageHistory(messages)]
    /\ UNCHANGED <<messages, step, searchHistory, crawlHistory, addLog, loopCtl>>

AccNext ==
    \/ CallAddSearchResults
    \/ CallAddCrawls
    \/ CallGetSearchHistory
    \/ CallGetCrawlHistory
    \/ CallGetMessageHistory

AccSpec == Init /\ [][AccNext]_vars

----------------------------------------------------------------------------
(* Two calls of runAgentLoop, interleaved at their awaits.  Each action is *)
(* the code a run executes between two awaits.                             *)

\* the head of the loop: test shouldStop, then await getNextAction or leave
LoopHead(run, ctx) ==
    IF ShouldStop(ctx.step)
    THEN [run EXCEPT !.pc = "returned",
                     !.answer = <<AnswerQuestion(ExhaustedArg)>>]
    ELSE [run EXCEPT !.pc = "awaitAction", !.selects = Bump(run.selects)]

\* runAgentLoop(messages) is called: the context is created, the loop entered
RunCall(r) ==
    /\ runs[r].pc = "idle"
    /\ LET msgs == RunMessages(r)
           ref == AllocContext(heap)
           ctx == NewContext(msgs)
       IN /\ heap' = IF ref > Len(heap) THEN Append(heap, ctx)
                     ELSE [heap EXCEPT ![ref] = ctx]
          /\ runs' = [runs EXCEPT ![r] =
                         LoopHead([runs[r] EXCEPT !.context = ref, !.msgs = msgs], ctx)]
    /\ UNCHANGED <<loopVars, accVars, postVars>>

\* getNextAction resolves in run r; the run goes on to its next await
RunActionSelected(r) ==
    /\ runs[r].pc = "awaitAction"
    /\ \E raw \in RunResponses :
          runs' = [runs EXCEPT ![r] =
              IF ~SchemaAccepts(raw) THEN [@ EXCEPT !.pc = OnReject("awaitAction")]
              ELSE IF IsSearch(raw) THEN [@ EXCEPT !.pc = "awaitSearch"]
              ELSE IF IsCrawl(raw)
                   THEN IF raw.urls.kind = "null" THEN [@ EXCEPT !.pc = "threw"]
                        ELSE [@ EXCEPT !.pc = "awaitCrawl"]
              ELSE IF IsAnswer(raw)
                   THEN [@ EXCEPT !.pc = "returned",
                                  !.answer = <<AnswerQuestion(DefaultExhausted)>>]
              ELSE LoopHead([@ EXCEPT !.done = Bump(@)],
                            [heap[@.context] EXCEPT !.step = IncrementStep(@)])]
    /\ heap' = heap
    /\ UNCHANGED <<loopVars, accVars, postVars>>

\* exa.search resolves in run r: addSearchResults, incrementStep, loop head
RunSearchReturns(r) ==
    /\ runs[r].pc = "awaitSearch"
    /\ \E results \in SeqsUpTo({SearchA}, MaxRunHistory) :
          LET ref == runs[r].context
              ctx == [heap[ref] EXCEPT
                         !.searchHistory = AddSearchResults(@, results),
                         !.step = IncrementStep(@)]
          IN /\ Len(runs[r].ownSearch) + Len(results) <= MaxRunHistory
             /\ heap' = [heap EXCEPT ![ref] = ctx]
             /\ runs' = [runs EXCEPT ![r] =
                            LoopHead([@ EXCEPT !.ownSearch = @ \o results,
                                               !.done = Bump(@)], ctx)]
    /\ UNCHANGED <<loopVars, accVars, postVars>>

\* exa.getContents resolves in run r: addCrawls, incrementStep, loop head
RunCrawlReturns(r) ==
    /\ runs[r].pc = "awaitCrawl"
    /\ \E crawls \in SeqsUpTo({CrawlB}, MaxRunHistory) :
          LET ref == runs[r].context
              ctx == [heap[ref] EXCEPT
                         !.crawlHistory = AddCrawls(@, crawls),
                         !.step = IncrementStep(@)]
          IN /\ Len(runs[r].ownCrawl) + Len(crawls) <= MaxRunHistory
             /\ heap' = [heap EXCEPT ![ref] = ctx]
             /\ runs' = [runs EXCEPT ![r] =
                            LoopHead([@ EXCEPT !.ownCrawl = @ \o crawls,
                                               !.done = Bump(@)], ctx)]
    /\ UNCHANGED <<loopVars, accVars, postVars>>

\* the call run r awaits rejects
RunCallFails(r) ==
    /\ runs[r].pc \in {"awaitAction", "awaitSearch", "awaitCrawl"}
    /\ runs' = [runs EXCEPT ![r].pc = OnReject(runs[r].pc)]
    /\ heap' = heap
    /\ UNCHANGED <<loopVars, accVars, postVars>>

TwoRunNext ==
    \E r \in Runs :
        \/ RunCall(r)
        \/ RunActionSelected(r)
        \/ RunSearchReturns(r)
        \/ RunCrawlReturns(r)
        \/ RunCallFails(r)

TwoRunSpec == Init /\ [][TwoRunNext]_vars

----------------------------------------------------------------------------
(* The POST handler of the chat route *)

\* const { messages } = await req.json(); lastMessage = messages[length - 1];
\* db.insert(...).values({ id: lastMessage.id, ... }) is called and awaited
PostReceive ==
    /\ post.pc = "idle"
    /\ \E body \in PostBodies :
          post' = IF body = <<>>
                  THEN [post EXCEPT !.pc = "rejected", !.messages = body,
                                    !.failure = "typeError"]
                  ELSE [post EXCEPT !.pc = "insertUser", !.messages = body,
                                    !.inserts = Append(@, "user")]
    /\ UNCHANGED <<loopVars, accVars, runVars>>

\* the insert of the user message resolves; the stream is created and the
\* response returned
PostUserInserted ==
    /\ post.pc = "insertUser"
    /\ post' = [post EXCEPT !.pc = "execute",
                            !.rows = Append(@, UserRow(post.messages[Len(post.messages)]))]
    /\ UNCHANGED <<loopVars, accVars, runVars>>

\* the insert of the user message rejects
PostUserInsertFails ==
    /\ post.pc = "insertUser"
    /\ post' = [post EXCEPT !.pc = PostOnReject("insertUser"),
                            !.failure = "userInsert"]
    /\ UNCHANGED <<loopVars, accVars, runVars>>

\* execute: streamText({ ..., stopWhen, messages, tools }) is started and
\* its stream merged into the response
PostExecute ==
    /\ post.pc = "execute"
    /\ post' = [post EXCEPT !.pc = "streaming", !.modelCalls = @ + 1,
                            !.steps = 1, !.stream = "streamText"]
    /\ UNCHANGED <<loopVars, accVars, runVars>>

\* a step of the model calls the searchWeb tool: exa.search
PostSearchWeb ==
    /\ post.pc = "streaming"
    /\ post.steps < PostStepLimit
    /\ post' = [post EXCEPT !.steps = @ + 1, !.searches = @ + 1]
    /\ UNCHANGED <<loopVars, accVars, runVars>>

\* a step of the model calls the crawlPages tool: exa.getContents
PostCrawlPages ==
    /\ post.pc = "streaming"
    /\ post.steps < PostStepLimit
    /\ post' = [post EXCEPT !.steps = @ + 1, !.crawls = @ + 1]
    /\ UNCHANGED <<loopVars, accVars, runVars>>

\* the stream ends (a step without tool call, the step limit, or an error
\* part): onFinish is called and awaits the insert of the response message
PostStreamFinished ==
    /\ post.pc = "streaming"
    /\ post' = [post EXCEPT !.pc = "onFinish", !.finished = TRUE,
                            !.inserts = Append(@, "assistant")]
    /\ UNCHANGED <<loopVars, accVars, runVars>>

\* the insert of the response message resolves
PostAssistantInserted ==
    /\ post.pc = "onFinish"
    /\ post' = [post EXCEPT !.pc = "done", !.rows = Append(@, AssistantRow)]
    /\ UNCHANGED <<loopVars, accVars, runVars>>

\* the insert of the response message rejects
PostAssistantInsertFails ==
    /\ post.pc = "onFinish"
    /\ post' = [post EXCEPT !.pc = "done", !.failure = "assistantInsert"]
    /\ UNCHANGED <<loopVars, accVars, runVars>>

PostNext ==
    \/ PostReceive
    \/ PostUserInserted
    \/ PostUserInsertFails
    \/ PostExecute
    \/ PostSearchWeb
    \/ PostCrawlPages
    \/ PostStreamFinished
    \/ PostAssistantInserted
    \/ PostAssistantInsertFails

PostSpec == Init /\ [][PostNext]_vars

\* every outstanding call eventually settles and its continuation runs
FairSpec == Spec /\ WF_vars(Next)

TypeOK ==
    /\ pc \in {"while", "awaitAction", "ifSearch", "awaitSearch", "ifCrawl",
               "awaitCrawl", "ifAnswer", "returned", "threw"}
    /\ step \in 0..StepCeiling
    /\ failure \in {"none", "decode", "selector", "search", "crawl", "typeError"}

----------------------------------------------------------------------------
(* Properties *)

IsTerminal == pc \in {"returned", "threw"}

NonEmptyString(j) == j.kind = "string" /\ j.str # ""

NonEmptyList(j) == j.kind = "array" /\ j.items # <<>>

\* C1: getNextAction is called at most 10 times in a run: shouldStop() is
\* false for every step count below 10 and true at 10, so a selection is
\* only ever awaited with the counter below 10.
C1_AtMostTenSelections ==
    /\ selectCalls <= 10
    /\ pc = "awaitAction" => step < 10
    /\ \A n \in 0..10 : ShouldStop(n) <=> (n = 10)

\* the tenth selection has been made and the loop has stopped
C1_Witness == selectCalls = 10 /\ step = 10 /\ pc = "returned"

\* C2: once the selector has returned 'answer', the run makes no further
\* selection, search or crawl call; it only moves on to the answer branch,
\* where answerQuestion is called with exhausted = false and the run returns.
C2_AnswerEndsLoop ==
    [][answerChosen =>
          /\ selectCalls' = selectCalls
          /\ providerCalls' = providerCalls
          /\ pc' \in {"ifCrawl", "ifAnswer", "returned"}
          /\ pc' = "returned" => answerCalls' = <<[exhausted |-> FALSE]>>]_vars

\* 'answer' was selected in the tenth iteration and the run has returned
C2_Witness ==
    /\ pc = "returned"
    /\ answerChosen
    /\ step = 9
    /\ selectCalls = 10
    /\ answerCalls = <<[exhausted |-> FALSE]>>

C3_ExhaustedShape ==
    /\ (pc = "while" /\ step = 10) =>
          (answerCalls = <<>> /\ ~answerChosen /\ providerDone = 10)
    /\ (pc = "returned" /\ ~answerChosen) =>
          /\ answerCalls = <<[exhausted |-> TRUE]>>
          /\ step = 10
          /\ selectCalls = 10
          /\ providerDone = 10
    /\ \A i \in 1..Len(answerCalls) :
          answerCalls[i].exhausted => (~answerChosen /\ providerDone = 10)

C4_ExactlyOneAnswer ==
    /\ Len(answerCalls) <= 1
    /\ (pc = "returned") <=> (Len(answerCalls) = 1)
    /\ pc = "returned" => (answerCalls[1].exhausted <=> ~answerChosen)

\* a run that answered in its first iteration, before any search or crawl
C4_Witness ==
    /\ pc = "returned"
    /\ Len(answerCalls) = 1
    /\ ~answerCalls[1].exhausted
    /\ selectCalls = 1
    /\ providerCalls = 0

\* C5: whatever the selector chooses, as long as no selector or provider
\* call fails, the run eventually returns one answer stream.
C5_ReachesAnswer ==
    <>(\/ pc = "returned" /\ Len(answerCalls) = 1
       \/ failure \in {"decode", "selector", "search", "crawl"})

\* every run ends: it returns or it rejects
C5_RunEnds == <>IsTerminal

\* C6: exa.search is never called with a null or an empty query, because
\* such a 'search' action does not pass the decode step.
C6_SearchQueryNeverEmpty ==
    /\ IsSearch(nextAction) => NonEmptyString(nextAction.query)
    /\ \A i \in 1..Len(iterCalls) :
          iterCalls[i].api = "search" => NonEmptyString(iterCalls[i].arg)

PayloadMatchesTag(a) ==
    /\ IsSearch(a) => (NonEmptyString(a.query) /\ a.urls = JNull)
    /\ IsCrawl(a) => (NonEmptyList(a.urls) /\ a.query = JNull)
    /\ IsAnswer(a) => (a.query = JNull /\ a.urls = JNull)

\* C7: every Action that getNextAction returns to the loop has the payload
\* of its tag: a non-empty query only for 'search', a non-empty URL list
\* only for 'crawl', both null for 'answer'.
C7_PayloadMatchesTag ==
    nextAction # NoAction =>
        (nextAction.type.str \in ActionTypes /\ PayloadMatchesTag(nextAction))

\* C8: a search or crawl call that fails rejects the run: the step that
\* fails and every later step leave the histories, the step counter and the
\* call counters as they are, and no answerQuestion call is made.
C8_ProviderFailureAborts ==
    /\ [](failure \in {"search", "crawl"} =>
             (pc = "threw" /\ answerCalls = <<>>))
    /\ [][failure' \in {"search", "crawl"} =>
             UNCHANGED <<step, searchHistory, crawlHistory, selectCalls,
                         providerCalls, providerDone, answerCalls>>]_vars

\* a crawl call failed after an earlier search had been appended
C8_Witness ==
    /\ failure = "crawl"
    /\ pc = "threw"
    /\ step >= 1
    /\ searchHistory # <<>>

\* C9: a model response that does not conform to actionSchema rejects the
\* run: the selector is not called again, no search or crawl call is issued
\* in that iteration or later, and no answer is generated.
C9_DecodeFailureAborts ==
    /\ [](failure = "decode" =>
             (pc = "threw" /\ iterCalls = <<>> /\ answerCalls = <<>>))
    /\ [][failure' = "decode" =>
             UNCHANGED <<selectCalls, providerCalls, answerCalls, step>>]_vars

\* the response of the third selection did not decode
C9_Witness == failure = "decode" /\ pc = "threw" /\ selectCalls = 3

RECURSIVE Appended(_, _)
Appended(log, op) ==
    IF log = <<>> THEN <<>>
    ELSE LET last == log[Len(log)]
             before == Appended(SubSeq(log, 1, Len(log) - 1), op)
         IN IF last.op = op THEN before \o last.batch ELSE before

\* the lines of a list, each after the separator that ends the one before
RECURSIVE Lines(_, _, _)
Lines(items, line(_), sep) ==
    IF items = <<>> THEN ""
    ELSE LET n == Len(items)
         IN IF n = 1 THEN line(items[1])
            ELSE Lines(SubSeq(items, 1, n - 1), line, sep) \o sep \o line(items[n])

SearchLine(r) == "- " \o TitleText(r.title) \o ": " \o r.url

CrawlSection(r) ==
    "## " \o TitleText(r.title) \o "\n" \o r.url \o "\n\n" \o r.text

C11_Histories ==
    /\ searchHistory = Appended(addLog, "addSearchResults")
    /\ crawlHistory = Appended(addLog, "addCrawls")
    /\ GetSearchHistory(searchHistory)
          = Lines(Appended(addLog, "addSearchResults"), SearchLine, "\n")
    /\ GetCrawlHistory(crawlHistory)
          = Lines(Appended(addLog, "addCrawls"), CrawlSection, "\n\n---\n\n")
    /\ GetSearchHistory(<<SearchA, SearchB, SearchA>>)
          = "- A: https://a.example\n- null: https://b.example\n- A: https://a.example"

\* C11: each history is the concatenation, in call order, of the batches
\* passed to its own add operation (nothing dropped, merged or reordered),
\* and getSearchHistory / getCrawlHistory return the entries rendered in
\* that order.
C11_AppendOnlyInOrder ==
    /\ []C11_Histories
    /\ [][rendered' # rendered =>
            /\ rendered'.of = "search" =>
                  rendered'.text = Lines(searchHistory, SearchLine, "\n")
            /\ rendered'.of = "crawl" =>
                  rendered'.text = Lines(crawlHistory, CrawlSection, "\n\n---\n\n")]_vars

\* the same result was appended twice, then a crawl, and the search
\* history was rendered
C11_Witness ==
    /\ Len(addLog) = 3
    /\ searchHistory = <<SearchA, SearchA>>
    /\ Len(crawlHistory) = 1
    /\ rendered = [of |-> "search",
                   text |-> "- A: https://a.example\n- A: https://a.example"]

\* the action of the current iteration is being executed
Executing == pc \in {"ifSearch", "awaitSearch", "ifCrawl", "awaitCrawl", "ifAnswer"}

\* C12: executing an 'answer' action changes nothing of the accumulator
\* (histories, messages, step counter); executing a 'search' action leaves
\* the crawl history and the messages as they are, a 'crawl' action the
\* search history and the messages.
C12_FrameEffects ==
    [][Executing =>
          /\ nextAction.type = JStr("answer") =>
                UNCHANGED <<searchHistory, crawlHistory, messages, step>>
          /\ nextAction.type = JStr("search") =>
                UNCHANGED <<crawlHistory, messages>>
          /\ nextAction.type = JStr("crawl") =>
                UNCHANGED <<searchHistory, messages>>]_vars

\* an 'answer' was executed on an accumulator that held results of both kinds
C12_Witness ==
    /\ pc = "returned"
    /\ answerChosen
    /\ step = 2
    /\ searchHistory # <<>>
    /\ crawlHistory # <<>>
    /\ Len(messages) = 3

\* C13: a run has at most one awaited call (action selection, search or
\* crawl) outstanding at any time, and a call is only started when none is
\* outstanding.
C13_OneOutstandingCall ==
    /\ [](/\ pending \in {0, 1}
          /\ (pending = 1) <=> (pc \in {"awaitAction", "awaitSearch", "awaitCrawl"}))
    /\ [][pending' > pending => (pending = 0 /\ pending' = 1)]_vars

\* a crawl call is outstanding after a search call of the run has returned
C13_Witness ==
    /\ pc = "awaitCrawl"
    /\ pending = 1
    /\ providerCalls = 2
    /\ providerDone = 1
    /\ searchHistory # <<>>

Started(r) == runs[r].context # 0

\* C14: two interleaved runs do not share accumulator state: the histories,
\* the messages and the step counter of a run's context are exactly what
\* that run was given, appended and counted, a step of one run leaves the
\* context of the other as it is, and each run asks for at most 10 actions.
C14_RunsIsolated ==
    /\ [](\A r \in Runs : Started(r) =>
             /\ heap[runs[r].context].searchHistory = runs[r].ownSearch
             /\ heap[runs[r].context].crawlHistory = runs[r].ownCrawl
             /\ heap[runs[r].context].step = runs[r].done
             /\ heap[runs[r].context].messages = runs[r].msgs
             /\ runs[r].selects <= 10
             /\ \A q \in Runs \ {r} : runs[q].context # runs[r].context)
    /\ [][\A r \in Runs : (Started(r) /\ runs'[r] = runs[r]) =>
             heap'[runs[r].context] = heap[runs[r].context]]_vars

\* both runs are in flight, each with results the other does not have
C14_Witness ==
    /\ runs["first"].pc = "awaitAction"
    /\ runs["second"].pc = "awaitSearch"
    /\ runs["first"].ownSearch = <<SearchA>>
    /\ runs["first"].ownCrawl = <<>>
    /\ runs["second"].ownSearch = <<>>
    /\ runs["second"].ownCrawl = <<CrawlB>>
    /\ runs["first"].done = 1
    /\ runs["second"].done = 3

\* C15: a request to POST is served by the agent loop: when its response
\* stream has finished, runAgentLoop has run on the request's messages
\* (actions were selected, one answerQuestion call was made) and the stream
\* is the one of answerQuestion.
C15_PostServedByAgentLoop ==
    post.finished =>
        /\ pc = "returned"
        /\ selectCalls >= 1
        /\ Len(answerCalls) = 1
        /\ post.stream = "answerQuestion"

CountOf(seq, x) == Cardinality({i \in 1..Len(seq) : seq[i] = x})

\* C18: the user message is in the table before a model call is started;
\* the insert of the response message is made at most once, only after the
\* stream has finished, and exactly once when the request is done; when the
\* insert of the user message fails there is no model call and no insert of
\* a response message.
C18_PersistenceOrder ==
    /\ post.modelCalls > 0 =>
          (post.rows # <<>> /\ post.rows[1] = UserRow(post.messages[Len(post.messages)]))
    /\ CountOf(post.inserts, "assistant") <= 1
    /\ CountOf(post.inserts, "assistant") = 1 => (post.finished /\ post.inserts = <<"user", "assistant">>)
    /\ post.pc = "done" => CountOf(post.inserts, "assistant") = 1
    /\ Len(post.rows) = 2 => (post.rows[2].role = "assistant" /\ post.pc = "done")
    /\ post.failure = "userInsert" =>
          (post.modelCalls = 0 /\ post.inserts = <<"user">> /\ post.rows = <<>>)

\* a request whose model called both tools is done, with both rows written
C18_Witness ==
    /\ post.pc = "done"
    /\ Len(post.rows) = 2
    /\ post.rows[1].role = "user"
    /\ post.rows[2].role = "assistant"
    /\ post.searches = 1
    /\ post.crawls = 1
    /\ Len(post.messages) = 3

\* the text of the parts of a message whose type is 'text'
TextOfTextParts(m) ==
    Lines(SelectSeq(m.parts, LAMBDA part : part.type = "text"),
          LAMBDA part : part.text, "")

MessageLine(m) == m.role \o ": " \o TextOfTextParts(m)

\* C16: getMessageHistory returns one line "{role}: {text}" per message, in
\* message order, joined by newlines, where {text} is the concatenation of
\* the text parts only; a part of another type adds nothing.
C16_TextPartsOnly ==
    /\ GetMessageHistory(<<UserHello>>) = "user: hello"
    /\ rendered.of = "messages" =>
          rendered.text = Lines(messages, MessageLine, "\n")

\* C17: the step counter stays between 0 and 10 and never decreases; it
\* goes up by exactly one, at the end of an iteration whose search or crawl
\* call has returned, never in an 'answer' iteration or after a failed call;
\* wherever the run awaits or has ended it equals the number of provider
\* calls that have returned, and a run issues at most 10 provider calls.
C17_StepCountsCompleted ==
    /\ [](/\ step \in 0..10
          /\ providerCalls <= 10
          /\ step <= providerDone /\ providerDone <= step + 1
          /\ pc \in {"while", "awaitAction", "awaitSearch", "awaitCrawl",
                     "returned", "threw"} => step = providerDone)
    /\ [][\/ step' = step
          \/ /\ step' = step + 1
             /\ providerDone = step + 1
             /\ nextAction.type \in {JStr("search"), JStr("crawl")}
             /\ failure = "none"]_vars

\* the tenth search or crawl has completed and was counted
C17_Witness ==
    /\ step = 10
    /\ providerCalls = 10
    /\ providerDone = 10
    /\ pc = "while"
    /\ crawlHistory # <<>>

====
